---- MODULE Spec2Model ----
(***************************************************************************)
(* Deck runtime of THRIVE-Belize-GuestLecture: slide navigator, notes      *)
(* panel, music reveal, activity timer and narration cue player.           *)
(* Two revisions of the engine are modelled, selected by `variant`:        *)
(*   "deck"     = src/assets/js/deck.js                                    *)
(*   "part_001" = src/unnamed/part_001 (adds narration, other reveal)      *)
(* Slides are identified by their 0-based position in the document; the    *)
(* JavaScript array slides is the sequence <<0, .., n-1>>.                 *)
(***************************************************************************)
EXTENDS Integers, Sequences, FiniteSets, TLC

VARIABLES
    \* ---- document / program configuration, fixed after Init ----
    variant,          \* which revision of the engine is loaded
    docSlides,        \* number of .slide elements in the document
    speakerNote,      \* slides that carry a .speaker-note element
    ACTIVITY_STEPS,   \* durations of the activity steps
    dataCues,         \* data-cues attribute of every narration button
    payload,          \* the text of #deck-data, as what JSON.parse makes of it
    markupFilled,     \* the markup's slots already hold the placeholders
    markupActive,     \* slides the markup marks active, before any script
    \* ---- event loop ----
    phase,            \* "loading" until init() ran, then "ready" or "empty"
    lastOp,           \* the handler that ran last, with its argument (for a
                      \* click or a key press: currentIndex before it ran)
    \* ---- navigator ----
    slides, currentIndex, active, progressWidth, counterText,
    prevDisabled, nextDisabled, notesContent, musicVisible, musicActive,
    musicWrites,      \* writes to the reveal widget by the last updateMusic()
    notesVisible, notesPanelVisible, fullscreen,
    \* ---- timer ----
    timerInterval, timerSeconds, timerRunning, timerStepIndex,
    intervals,        \* interval handles the browser still fires
    btnText, btnClass, btnDisabled, display, stepName,
    elapsed,          \* ticks since an uninterrupted start from Idle, or NoRun
    \* ---- narration ----
    activeNarrate, cues, narrBtn, audio,
    timeouts,         \* cue timeouts the browser still has pending
    speaking,         \* elements carrying the "speaking" class
    playCount,        \* number of playbacks started so far
    stoppedPlays,     \* playbacks that stopNarrate() has stopped
    highlightBy,      \* playback whose cue callback fired last, or 0
    \* ---- metadata loader ----
    fileText, durText,   \* text of #<key>-file and #<key>-dur
    playerSrc,           \* src of video[data-video=<key>], "" when unset
    onerror,             \* the player of <key> has the fallback handler
    loading,             \* the player of <key> is loading its source
    fallbacks,           \* assignments of the remote source by the handler
    errorEvents          \* error events the player of <key> has fired

cfgVars   == <<variant, docSlides, speakerNote, ACTIVITY_STEPS, dataCues,
               payload, markupFilled, markupActive>>
navVars   == <<currentIndex, active, progressWidth, counterText,
               prevDisabled, nextDisabled, notesContent, musicVisible,
               musicActive, musicWrites>>
uiVars    == <<notesVisible, notesPanelVisible, fullscreen>>
timerVars == <<timerInterval, timerSeconds, timerRunning, timerStepIndex,
               intervals, btnText, btnClass, btnDisabled, display, stepName,
               elapsed>>
narrVars  == <<activeNarrate, narrBtn, audio, timeouts, speaking,
               playCount, stoppedPlays, highlightBy>>
videoVars == <<fileText, durText, playerSrc, onerror, loading, fallbacks,
               errorEvents>>
vars      == <<cfgVars, phase, lastOp, slides, cues, navVars, uiVars,
               timerVars, narrVars, videoVars>>

(***************************************************************************)
(* Bounds of the model.                                                    *)
(***************************************************************************)
MaxSlides   == 5    \* documents have 0..MaxSlides slides
MaxOver     == 2    \* goToSlide is tried up to MaxOver past either end
MaxSteps    == 2    \* test step lists have 1..MaxSteps steps
MaxDuration == 3    \* test steps last 1..MaxDuration seconds
NumBtns     == 2    \* narration buttons in the document
MaxPlays    == 3    \* playbacks started in one run
AudioEnd    == 2    \* playback positions 0..AudioEnd, AudioEnd = the end
MaxErrors   == 2    \* error events one video player fires in one run

Variants == {"deck", "part_001"}
Op(name, key, tag, n) == [op |-> name, key |-> key, tag |-> tag, n |-> n]

Min(a, b) == IF a < b THEN a ELSE b
Max(a, b) == IF a > b THEN a ELSE b

----------------------------------------------------------------------------
(***************************************************************************)
(* Slide navigator                                                         *)
(***************************************************************************)

\* querySelectorAll(".slide") as an array: the slides in document order
SlideArray(n) == [i \in 1..n |-> i - 1]

\* slides[index] of the JavaScript array sl
At(sl, index) == sl[index + 1]

\* updateProgress: the width written to #progress-fill, as the exact
\* fraction num/den of a percentage
updateProgress(sl, idx) ==
    IF Len(sl) > 1 THEN [num |-> idx * 100, den |-> Len(sl) - 1]
                   ELSE [num |-> 100, den |-> 1]

\* updateCounter: the text "a / b" as the pair <<a, b>>
CounterText(sl, idx) == <<idx + 1, Len(sl)>>
PrevDisabled(sl, idx) == idx = 0
\* a next button that is disabled one index too late
NextDisabledOffByOne(sl, idx) == idx = Len(sl)

NextDisabled(sl, idx) == idx = Len(sl) - 1

\* updateNotes: text of the slide's note, "" (the empty sequence) if none
NoteText(s) == <<"note", s>>
updateNotes(sl, idx) ==
    IF At(sl, idx) \in speakerNote THEN NoteText(At(sl, idx)) ELSE <<>>

\* an updateMusic of deck.js that forgets to set musicActive when it shows
\* the widget
UpdateMusicDeckNoFlag(sl, idx) ==
    LET shouldShow == idx >= Len(sl) - 3 IN
    IF shouldShow /\ ~musicActive
      THEN musicVisible' = TRUE /\ musicWrites' = 1 /\ UNCHANGED musicActive
    ELSE IF ~shouldShow /\ musicActive
      THEN musicVisible' = FALSE /\ musicActive' = FALSE /\ musicWrites' = 1
    ELSE musicWrites' = 0 /\ UNCHANGED <<musicVisible, musicActive>>

\* updateMusic of deck.js: the class is written only when musicActive flips
updateMusicDeck(sl, idx) ==
    LET shouldShow == idx >= Len(sl) - 3 IN
    IF shouldShow /\ ~musicActive
      THEN musicVisible' = TRUE /\ musicActive' = TRUE /\ musicWrites' = 1
    ELSE IF ~shouldShow /\ musicActive
      THEN musicVisible' = FALSE /\ musicActive' = FALSE /\ musicWrites' = 1
    ELSE musicWrites' = 0 /\ UNCHANGED <<musicVisible, musicActive>>

\* updateMusic of part_001: style.display is written on every call
updateMusicBox(sl, idx) ==
    /\ musicVisible' = (idx >= Len(sl) - 3)
    /\ musicWrites' = 1
    /\ UNCHANGED musicActive

updateMusic(sl, idx) ==
    IF variant = "deck" THEN updateMusicDeck(sl, idx)
                        ELSE updateMusicBox(sl, idx)

\* a goToSlide whose upper bound check is off by one (index > length):
\* slides[length] is undefined, so the handler throws after it moved
\* currentIndex
GoToSlideOffByOne(sl, index) ==
    IF index < 0 \/ index > Len(sl) THEN UNCHANGED navVars
    ELSE IF index = Len(sl)
      THEN /\ active' = active \ {At(sl, currentIndex)}
           /\ currentIndex' = index
           /\ UNCHANGED <<progressWidth, counterText, prevDisabled,
                          nextDisabled, notesContent, musicVisible,
                          musicActive, musicWrites>>
    ELSE /\ active' = (active \ {At(sl, currentIndex)}) \cup {At(sl, index)}
         /\ currentIndex' = index
         /\ progressWidth' = updateProgress(sl, index)
         /\ counterText' = CounterText(sl, index)
         /\ prevDisabled' = PrevDisabled(sl, index)
         /\ nextDisabled' = NextDisabled(sl, index)
         /\ notesContent' = updateNotes(sl, index)
         /\ updateMusic(sl, index)

\* a goToSlide that forgets to deactivate the slide it leaves
GoToSlideKeepOld(sl, index) ==
    IF index < 0 \/ index >= Len(sl) THEN UNCHANGED navVars
    ELSE /\ active' = active \cup {At(sl, index)}
         /\ currentIndex' = index
         /\ progressWidth' = updateProgress(sl, index)
         /\ counterText' = CounterText(sl, index)
         /\ prevDisabled' = PrevDisabled(sl, index)
         /\ nextDisabled' = NextDisabled(sl, index)
         /\ notesContent' = updateNotes(sl, index)
         /\ updateMusic(sl, index)

\* goToSlide(index) on the slide array sl
GoToSlide(sl, index) ==
    IF index < 0 \/ index >= Len(sl) THEN UNCHANGED navVars
    ELSE /\ active' = (active \ {At(sl, currentIndex)}) \cup {At(sl, index)}
         /\ currentIndex' = index
         /\ progressWidth' = updateProgress(sl, index)
         /\ counterText' = CounterText(sl, index)
         /\ prevDisabled' = PrevDisabled(sl, index)
         /\ nextDisabled' = NextDisabled(sl, index)
         /\ notesContent' = updateNotes(sl, index)
         /\ updateMusic(sl, index)

\* a nextSlide that wraps around to the first slide
NextSlideWrap == GoToSlide(slides, (currentIndex + 1) % Len(slides))

nextSlide == GoToSlide(slides, Min(Len(slides) - 1, currentIndex + 1))
prevSlide == GoToSlide(slides, Max(0, currentIndex - 1))

toggleNotes ==
    /\ notesVisible' = ~notesVisible
    /\ notesPanelVisible' = notesVisible'
    /\ UNCHANGED fullscreen

\* requestFullscreen / exitFullscreen may be refused; the rejection is
\* swallowed by the empty catch handler
toggleFullscreen ==
    /\ fullscreen' \in {fullscreen, ~fullscreen}
    /\ UNCHANGED <<notesVisible, notesPanelVisible>>

----------------------------------------------------------------------------
(***************************************************************************)
(* Activity timer                                                          *)
(***************************************************************************)
NoHandle == 0     \* timerInterval = null
NoRun    == -1    \* elapsed: the run was paused, resumed or never started

\* renderTimer: text and class of #timer-display
RenderDisplay(sec) ==
    [m    |-> sec \div 60,
     s    |-> sec % 60,
     mPad |-> (sec \div 60) < 10,
     sPad |-> (sec % 60) < 10,
     cls  |-> IF sec <= 10 /\ sec > 0 THEN "danger"
              ELSE IF sec <= 30 THEN "warning"
              ELSE ""]

\* renderTimer: text of #timer-step-name
RenderStepName(step) ==
    IF step < Len(ACTIVITY_STEPS)
      THEN [complete |-> FALSE, step |-> step + 1]
      ELSE [complete |-> TRUE, step |-> 0]

renderTimer ==
    /\ display' = RenderDisplay(timerSeconds')
    /\ stepName' = RenderStepName(timerStepIndex')

\* setInterval returns a handle no live interval uses
NewHandle == CHOOSE h \in 1..(Cardinality(intervals) + 2) :
                 h \notin intervals \cup {timerInterval}

\* clearInterval(h) on the set of live intervals
clearInterval(live, h) == live \ {h}

\* the timer is in the Idle state of the state machine
IsIdle == /\ ~timerRunning
          /\ btnText = "Start"
          /\ timerStepIndex = 0
          /\ timerSeconds = ACTIVITY_STEPS[1]

\* the state of the timer's state machine
TimerState ==
    IF timerRunning THEN "Running"
    ELSE IF timerStepIndex >= Len(ACTIVITY_STEPS) THEN "Complete"
    ELSE IF btnText = "Resume" THEN "Paused"
    ELSE "Idle"

startTimer ==
    /\ timerRunning' = TRUE
    /\ btnText' = "Pause"
    /\ btnClass' = "timer-btn timer-btn--pause"
    /\ timerInterval' = NewHandle
    /\ intervals' = intervals \cup {NewHandle}
    /\ elapsed' = IF IsIdle THEN 0 ELSE NoRun
    /\ UNCHANGED <<timerSeconds, timerStepIndex, btnDisabled, display,
                   stepName>>

\* a pauseTimer that puts the step's full duration back
PauseTimerReload ==
    /\ timerRunning' = FALSE
    /\ intervals' = clearInterval(intervals, timerInterval)
    /\ timerSeconds' = ACTIVITY_STEPS[timerStepIndex + 1]
    /\ btnText' = "Resume"
    /\ btnClass' = "timer-btn timer-btn--start"
    /\ elapsed' = NoRun
    /\ UNCHANGED <<timerInterval, timerStepIndex, btnDisabled, display,
                   stepName>>

\* a pauseTimer that forgets clearInterval
PauseTimerNoClear ==
    /\ timerRunning' = FALSE
    /\ btnText' = "Resume"
    /\ btnClass' = "timer-btn timer-btn--start"
    /\ elapsed' = NoRun
    /\ UNCHANGED <<intervals, timerInterval, timerSeconds, timerStepIndex,
                   btnDisabled, display, stepName>>

pauseTimer ==
    /\ timerRunning' = FALSE
    /\ intervals' = clearInterval(intervals, timerInterval)
    /\ btnText' = "Resume"
    /\ btnClass' = "timer-btn timer-btn--start"
    /\ elapsed' = NoRun
    /\ UNCHANGED <<timerInterval, timerSeconds, timerStepIndex, btnDisabled,
                   display, stepName>>

\* a resetTimer that forgets clearInterval
ResetTimerNoClear ==
    /\ timerRunning' = FALSE
    /\ timerStepIndex' = 0
    /\ timerSeconds' = ACTIVITY_STEPS[1]
    /\ btnText' = "Start"
    /\ btnClass' = "timer-btn timer-btn--start"
    /\ btnDisabled' = FALSE
    /\ renderTimer
    /\ elapsed' = NoRun
    /\ UNCHANGED <<intervals, timerInterval>>

resetTimer ==
    /\ intervals' = clearInterval(intervals, timerInterval)
    /\ timerRunning' = FALSE
    /\ timerStepIndex' = 0
    /\ timerSeconds' = ACTIVITY_STEPS[1]
    /\ btnText' = "Start"
    /\ btnClass' = "timer-btn timer-btn--start"
    /\ btnDisabled' = FALSE
    /\ renderTimer
    /\ elapsed' = NoRun
    /\ UNCHANGED timerInterval

\* a tick that starts over at the first step when the last one expires
TickRestartAtEnd ==
    /\ IF timerSeconds - 1 <= 0
         THEN IF timerStepIndex + 1 < Len(ACTIVITY_STEPS)
                THEN /\ timerStepIndex' = timerStepIndex + 1
                     /\ timerSeconds' = ACTIVITY_STEPS[timerStepIndex + 2]
                ELSE /\ timerStepIndex' = 0
                     /\ timerSeconds' = ACTIVITY_STEPS[1]
         ELSE /\ timerSeconds' = timerSeconds - 1
              /\ UNCHANGED timerStepIndex
    /\ renderTimer
    /\ elapsed' = IF elapsed = NoRun THEN NoRun ELSE elapsed + 1
    /\ UNCHANGED <<timerInterval, btnClass, intervals, timerRunning, btnText,
                   btnDisabled>>

\* a tick that loads the duration of the step that just expired
TickStaleDuration ==
    /\ IF timerSeconds - 1 <= 0
         THEN IF timerStepIndex + 1 < Len(ACTIVITY_STEPS)
                THEN /\ timerStepIndex' = timerStepIndex + 1
                     /\ timerSeconds' = ACTIVITY_STEPS[timerStepIndex + 1]
                     /\ UNCHANGED <<intervals, timerRunning, btnText,
                                    btnDisabled>>
                ELSE /\ timerStepIndex' = timerStepIndex + 1
                     /\ intervals' = clearInterval(intervals, timerInterval)
                     /\ timerRunning' = FALSE
                     /\ timerSeconds' = 0
                     /\ btnText' = "Done"
                     /\ btnDisabled' = TRUE
         ELSE /\ timerSeconds' = timerSeconds - 1
              /\ UNCHANGED <<timerStepIndex, intervals, timerRunning,
                             btnText, btnDisabled>>
    /\ renderTimer
    /\ elapsed' = IF elapsed = NoRun THEN NoRun ELSE elapsed + 1
    /\ UNCHANGED <<timerInterval, btnClass>>

\* a tick that tests timerSeconds < 0 instead of <= 0
TickLateExpiry ==
    /\ IF timerSeconds - 1 < 0
         THEN IF timerStepIndex + 1 < Len(ACTIVITY_STEPS)
                THEN /\ timerStepIndex' = timerStepIndex + 1
                     /\ timerSeconds' = ACTIVITY_STEPS[timerStepIndex + 2]
                     /\ UNCHANGED <<intervals, timerRunning, btnText,
                                    btnDisabled>>
                ELSE /\ timerStepIndex' = timerStepIndex + 1
                     /\ intervals' = clearInterval(intervals, timerInterval)
                     /\ timerRunning' = FALSE
                     /\ timerSeconds' = 0
                     /\ btnText' = "Done"
                     /\ btnDisabled' = TRUE
         ELSE /\ timerSeconds' = timerSeconds - 1
              /\ UNCHANGED <<timerStepIndex, intervals, timerRunning,
                             btnText, btnDisabled>>
    /\ renderTimer
    /\ elapsed' = IF elapsed = NoRun THEN NoRun ELSE elapsed + 1
    /\ UNCHANGED <<timerInterval, btnClass>>

\* the callback of setInterval in startTimer
\* a tick that reloads the last step when it expires instead of finishing
TickRepeatsLastStep ==
    /\ IF timerSeconds - 1 <= 0
         THEN IF timerStepIndex + 1 < Len(ACTIVITY_STEPS)
                THEN /\ timerStepIndex' = timerStepIndex + 1
                     /\ timerSeconds' = ACTIVITY_STEPS[timerStepIndex + 2]
                     /\ elapsed' = IF elapsed = NoRun THEN NoRun
                                                      ELSE elapsed + 1
                ELSE /\ timerSeconds' = ACTIVITY_STEPS[timerStepIndex + 1]
                     /\ UNCHANGED timerStepIndex
                     /\ elapsed' = NoRun
         ELSE /\ timerSeconds' = timerSeconds - 1
              /\ UNCHANGED timerStepIndex
              /\ elapsed' = IF elapsed = NoRun THEN NoRun ELSE elapsed + 1
    /\ renderTimer
    /\ UNCHANGED <<timerInterval, btnClass, intervals, timerRunning, btnText,
                   btnDisabled>>

tick ==
    /\ IF timerSeconds - 1 <= 0
         THEN IF timerStepIndex + 1 < Len(ACTIVITY_STEPS)
                THEN /\ timerStepIndex' = timerStepIndex + 1
                     /\ timerSeconds' = ACTIVITY_STEPS[timerStepIndex + 2]
                     /\ UNCHANGED <<intervals, timerRunning, btnText,
                                    btnDisabled>>
                ELSE /\ timerStepIndex' = timerStepIndex + 1
                     /\ intervals' = clearInterval(intervals, timerInterval)
                     /\ timerRunning' = FALSE
                     /\ timerSeconds' = 0
                     /\ btnText' = "Done"
                     /\ btnDisabled' = TRUE
         ELSE /\ timerSeconds' = timerSeconds - 1
              /\ UNCHANGED <<timerStepIndex, intervals, timerRunning,
                             btnText, btnDisabled>>
    /\ renderTimer
    /\ elapsed' = IF elapsed = NoRun THEN NoRun ELSE elapsed + 1
    /\ UNCHANGED <<timerInterval, btnClass>>

----------------------------------------------------------------------------
(***************************************************************************)
(* Narration cue player (part_001 only)                                    *)
(* Strings that the code takes apart are sequences of one-character        *)
(* strings; the alphabet is letters, digits, ":" and ",".                  *)
(***************************************************************************)
NaN == -1    \* the result of parseFloat on a non-number

Digits == {"0", "1", "2", "3", "4", "5", "6", "7", "8", "9"}
DigitVal(c) == CASE c = "0" -> 0 [] c = "1" -> 1 [] c = "2" -> 2
                 [] c = "3" -> 3 [] c = "4" -> 4 [] c = "5" -> 5
                 [] c = "6" -> 6 [] c = "7" -> 7 [] c = "8" -> 8
                 [] c = "9" -> 9

Range(f) == {f[i] : i \in DOMAIN f}

\* String.prototype.split(sep): always at least one part
RECURSIVE Split(_, _)
Split(str, sep) ==
    IF \A i \in 1..Len(str) : str[i] # sep THEN <<str>>
    ELSE LET k == CHOOSE i \in 1..Len(str) :
                      str[i] = sep /\ \A j \in 1..(i - 1) : str[j] # sep
         IN <<SubSeq(str, 1, k - 1)>> \o Split(SubSeq(str, k + 1, Len(str)), sep)

\* value of the longest prefix of digits, acc digits read so far
RECURSIVE DigitPrefix(_, _, _)
DigitPrefix(str, acc, seen) ==
    IF str = <<>> \/ Head(str) \notin Digits
      THEN IF seen THEN acc ELSE NaN
      ELSE DigitPrefix(Tail(str), acc * 10 + DigitVal(Head(str)), TRUE)

\* parseFloat(parts[1]); parts[1] is undefined when the pair has no ":"
parseFloat(parts) ==
    IF Len(parts) < 2 THEN NaN ELSE DigitPrefix(parts[2], 0, FALSE)

\* parseCues(attr); a missing attribute and "" are both the empty sequence
parseCues(attr) ==
    IF attr = <<>> THEN <<>>
    ELSE LET pairs == Split(attr, ",") IN
         [i \in 1..Len(pairs) |->
            LET parts == Split(pairs[i], ":") IN
            [id |-> parts[1], start |-> parseFloat(parts)]]

\* setTimeout(fn, cue.start * 1000): a NaN delay counts as 0
Delay(start) == IF start = NaN THEN 0 ELSE start * 1000

\* ids of the .sowhat-card elements of the document
SowhatCards == {<<"a">>, <<"b">>}

\* data-cues attributes found on narration buttons
CueAttrs == { <<>>,
              <<"a", ":", "1">>,
              <<"a", ":", "1", ",", "b", ":", "2">>,
              <<"b", ":", "2", ",", "z", ":", "1">>,
              <<"a", ":", "1", ",">>,
              <<"a", ":", "x">> }

Btns == 1..NumBtns
NoNarrate == [btn |-> 0, timers |-> <<>>]     \* activeNarrate = null
LISTEN_ICON == "Listen"
STOP_ICON == "Stop"
ListenBtn == [playing |-> FALSE, html |-> LISTEN_ICON]
StopBtn   == [playing |-> TRUE, html |-> STOP_ICON]

\* the narration state the handlers read and write
NarrState ==
    [activeNarrate |-> activeNarrate, narrBtn |-> narrBtn, audio |-> audio,
     timeouts |-> timeouts, speaking |-> speaking,
     playCount |-> playCount, stoppedPlays |-> stoppedPlays,
     highlightBy |-> highlightBy]

\* clearHighlights: removes "speaking" from every .sowhat-card
clearHighlights(sp) == sp \ SowhatCards

\* a stopNarrate that forgets to clear the cue timeouts
StopNarrateKeepTimers(ns) ==
    IF ns.activeNarrate = NoNarrate THEN ns
    ELSE LET a == ns.activeNarrate.btn IN
         [ns EXCEPT !.audio[a] = [paused |-> TRUE, currentTime |-> 0],
                    !.narrBtn[a] = ListenBtn,
                    !.speaking = clearHighlights(@),
                    !.highlightBy = 0,
                    !.activeNarrate = NoNarrate,
                    !.stoppedPlays = @ \cup {ns.playCount}]

\* stopNarrate(); the active playback is always the one started last
stopNarrate(ns) ==
    IF ns.activeNarrate = NoNarrate THEN ns
    ELSE LET a == ns.activeNarrate.btn IN
         [ns EXCEPT !.audio[a] = [paused |-> TRUE, currentTime |-> 0],
                    !.narrBtn[a] = ListenBtn,
                    !.timeouts = @ \ Range(ns.activeNarrate.timers),
                    !.speaking = clearHighlights(@),
                    !.highlightBy = 0,
                    !.activeNarrate = NoNarrate,
                    !.stoppedPlays = @ \cup {ns.playCount}]

\* playNarrate(btn, audio, cues) for button b; a timeout handle is the
\* record of its playback, its position in the cue list and its closure
playNarrate(ns, b) ==
    LET timers == [i \in 1..Len(cues[b]) |->
                     [play |-> ns.playCount + 1, idx |-> i,
                      id |-> cues[b][i].id,
                      delay |-> Delay(cues[b][i].start)]]
    IN [ns EXCEPT !.playCount = @ + 1,
                  !.narrBtn[b] = StopBtn,
                  !.timeouts = @ \cup Range(timers),
                  !.activeNarrate = [btn |-> b, timers |-> timers],
                  !.audio[b] = [paused |-> FALSE, currentTime |-> 0]]

\* a click handler that starts a narration without stopping the active one
StopIfActiveSkipped(ns) == ns

\* the click handler stops the active narration before it plays
StopIfActive(ns) ==
    IF ns.activeNarrate # NoNarrate THEN stopNarrate(ns) ELSE ns


\* a toggle test that compares the buttons the wrong way round
IsToggleOtherBtn(ns, b) ==
    /\ ns.activeNarrate # NoNarrate
    /\ ns.activeNarrate.btn # b
    /\ ~ns.audio[ns.activeNarrate.btn].paused

\* the condition of the click handler: btn is the active, playing control
IsToggle(ns, b) ==
    /\ ns.activeNarrate # NoNarrate
    /\ ns.activeNarrate.btn = b
    /\ ~ns.audio[ns.activeNarrate.btn].paused

\* the click handler of narration button b
narrateClick(ns, b) ==
    IF IsToggle(ns, b) THEN stopNarrate(ns)
                       ELSE playNarrate(StopIfActive(ns), b)

\* the "ended" listener of the audio of button b
onEnded(ns, b) ==
    [ns EXCEPT !.narrBtn[b] = ListenBtn,
               !.speaking = clearHighlights(@),
               !.highlightBy = 0]

\* the callback of a cue timeout t
cueCallback(ns, t) ==
    [ns EXCEPT !.speaking = clearHighlights(@) \cup
                            (IF t.id \in SowhatCards THEN {t.id} ELSE {}),
               !.highlightBy = IF t.id \in SowhatCards THEN t.play ELSE 0]

SetNarr(ns) ==
    /\ activeNarrate' = ns.activeNarrate
    /\ narrBtn' = ns.narrBtn
    /\ audio' = ns.audio
    /\ timeouts' = ns.timeouts
    /\ speaking' = ns.speaking
    /\ playCount' = ns.playCount
    /\ stoppedPlays' = ns.stoppedPlays
    /\ highlightBy' = ns.highlightBy

----------------------------------------------------------------------------
(***************************************************************************)
(* Metadata loader                                                         *)
(***************************************************************************)

\* the keys hydrateVideos() walks, in the order of its forEach
VideoKeys == <<"v1", "v2", "v3">>
KeySet    == {VideoKeys[i] : i \in 1..Len(VideoKeys)}

\* {}: a record without any field; an absent field reads as "", which
\* `||` and `if` treat like undefined
NoRec == [present |-> FALSE, filename |-> "", duration |-> "", remote |-> ""]

\* data.videos[key] || {}
Rec(data, key) ==
    IF data.videos[key].present THEN data.videos[key] ELSE NoRec

STREAMING == "Streaming from GitHub"

\* rec.filename || "Not detected"
FileSlot(rec) == IF rec.filename # "" THEN rec.filename ELSE "Not detected"

\* a duration slot written without its placeholder
DurSlotNoPlaceholder(rec) == rec.duration

\* rec.duration || "Play to see"
DurSlot(rec) == IF rec.duration # "" THEN rec.duration ELSE "Play to see"

\* hydrateVideos(): nothing is written unless #deck-data exists, parses and
\* has a videos map; otherwise every key gets its slots and, where the
\* record names a source, its player
hydrateVideos ==
    /\ IF payload.kind # "videos"
         THEN UNCHANGED <<fileText, durText, playerSrc, onerror, loading>>
         ELSE /\ fileText' = [k \in KeySet |->
                    LET rec == Rec(payload, k)
                    IN  IF rec.filename = "" /\ rec.remote # ""
                          THEN STREAMING ELSE FileSlot(rec)]
              /\ durText' = [k \in KeySet |-> DurSlot(Rec(payload, k))]
              /\ playerSrc' = [k \in KeySet |->
                    LET rec == Rec(payload, k)
                    IN  IF rec.filename # "" THEN rec.filename
                        ELSE IF rec.remote # "" THEN rec.remote
                        ELSE playerSrc[k]]
              /\ onerror' = [k \in KeySet |-> Rec(payload, k).filename # ""]
              /\ loading' = [k \in KeySet |-> playerSrc'[k] # playerSrc[k]]
    /\ UNCHANGED <<fallbacks, errorEvents>>

\* an error event of the player of key k: player.onerror, where installed,
\* runs with the record hydrateVideos() closed over
onError(k) ==
    LET rec == Rec(payload, k)
    IN  IF onerror[k] /\ rec.remote # ""
          THEN /\ playerSrc' = [playerSrc EXCEPT ![k] = rec.remote]
               /\ fileText' = [fileText EXCEPT ![k] = STREAMING]
               /\ fallbacks' = [fallbacks EXCEPT ![k] = @ + 1]
               \* assigning src starts a new load
               /\ UNCHANGED loading
          ELSE /\ loading' = [loading EXCEPT ![k] = FALSE]
               /\ UNCHANGED <<playerSrc, fileText, fallbacks>>

----------------------------------------------------------------------------
(***************************************************************************)
(* Initial states: the module-level initialisers of the script and the     *)
(* document it is loaded into.                                             *)
(***************************************************************************)
DeckSteps    == <<180, 180, 120, 120>>    \* ACTIVITY_STEPS of deck.js
Part001Steps == <<60, 60, 60, 60>>        \* ACTIVITY_STEPS of part_001
RealSteps(v) == IF v = "deck" THEN DeckSteps ELSE Part001Steps

\* further step lists the timer is exercised with
ExampleSteps  == <<10, 5>>
TestStepLists == UNION {[1..n -> 1..MaxDuration] : n \in 1..MaxSteps}
StepLists(v)  == {RealSteps(v), ExampleSteps} \cup TestStepLists

\* the metadata payloads: a record per key with or without each field, a
\* missing record, and the three documents hydrateVideos() returns early on
LocalFile == "../video.mp4"
RemoteUrl == "https://github.com/releases/video.mp4"
Duration  == "12m 5s"
RecChoices ==
    {NoRec} \cup [present : {TRUE}, filename : {"", LocalFile},
                  duration : {"", Duration}, remote : {"", RemoteUrl}]
NoDataKinds == {"noelement", "unparseable", "novideos"}
Payloads ==
    [kind : {"videos"}, videos : [KeySet -> RecChoices]]
      \cup [kind : NoDataKinds, videos : {[k \in KeySet |-> NoRec]}]

\* deck_data.json as the build script writes it: a filename and a duration
\* for every key, no remote
BuildPayload ==
    [kind |-> "videos",
     videos |-> [k \in KeySet |->
        [present |-> TRUE, filename |-> LocalFile, duration |-> Duration,
         remote |-> ""]]]

\* the text of the slots in the markup, before any script ran
MarkupFile == IF markupFilled THEN "Not detected" ELSE ""
MarkupDur  == IF markupFilled THEN "Play to see" ELSE ""

Boot ==
    /\ markupActive = active
    /\ phase = "loading"
    /\ lastOp = Op("load", "", "", 0)
    /\ slides = <<>>
    /\ currentIndex = 0
    /\ notesVisible = FALSE
    /\ timerInterval = NoHandle
    /\ timerSeconds = 0
    /\ timerRunning = FALSE
    /\ timerStepIndex = 0
    /\ musicActive = FALSE
    /\ musicWrites = 0
    /\ activeNarrate = NoNarrate
    /\ cues = [b \in Btns |-> <<>>]
    \* the document before any script ran
    /\ progressWidth = [num |-> 0, den |-> 1]
    /\ counterText = <<0, 0>>
    /\ prevDisabled = FALSE
    /\ nextDisabled = FALSE
    /\ notesContent = <<>>
    /\ musicVisible = FALSE
    /\ notesPanelVisible = FALSE
    /\ fullscreen = FALSE
    /\ btnText = "Start"
    /\ btnClass = "timer-btn timer-btn--start"
    /\ btnDisabled = FALSE
    /\ display = [m |-> 0, s |-> 0, mPad |-> TRUE, sPad |-> TRUE, cls |-> ""]
    /\ stepName = [complete |-> FALSE, step |-> 0]
    /\ narrBtn = [b \in Btns |-> ListenBtn]
    /\ audio = [b \in Btns |-> [paused |-> TRUE, currentTime |-> 0]]
    \* the browser and the history variables
    /\ intervals = {}
    /\ timeouts = {}
    /\ speaking = {}
    /\ elapsed = NoRun
    /\ playCount = 0
    /\ stoppedPlays = {}
    /\ highlightBy = 0
    /\ fileText = [k \in KeySet |-> MarkupFile]
    /\ durText = [k \in KeySet |-> MarkupDur]
    /\ playerSrc = [k \in KeySet |-> ""]
    /\ onerror = [k \in KeySet |-> FALSE]
    /\ loading = [k \in KeySet |-> FALSE]
    /\ fallbacks = [k \in KeySet |-> 0]
    /\ errorEvents = [k \in KeySet |-> 0]

\* speaker notes of a document of n slides: on every other slide
NoteLayouts(n) == {{i \in 0..(n - 1) : i % 2 = 0}}

\* slides the markup of a document of n slides marks active: none, the
\* first or the last
MarkupActive(n) == {{}} \cup {{i} : i \in {0, n - 1} \cap 0..(n - 1)}

\* documents for the navigator
InitNav ==
    /\ payload = BuildPayload
    /\ markupFilled = FALSE
    /\ variant \in Variants
    /\ docSlides \in 0..MaxSlides
    /\ speakerNote \in NoteLayouts(docSlides)
    /\ active \in MarkupActive(docSlides)
    /\ ACTIVITY_STEPS = RealSteps(variant)
    /\ dataCues = [b \in Btns |-> <<>>]
    /\ Boot

\* documents for the timer: one slide, any step list
InitTimer ==
    /\ payload = BuildPayload
    /\ markupFilled = FALSE
    /\ variant \in Variants
    /\ docSlides = 1
    /\ speakerNote = {}
    /\ active = {}
    /\ ACTIVITY_STEPS \in StepLists(variant)
    /\ dataCues = [b \in Btns |-> <<>>]
    /\ Boot

\* documents for the narration: one slide, any cue attributes
InitNarr ==
    /\ payload = BuildPayload
    /\ markupFilled = FALSE
    /\ variant = "part_001"
    /\ docSlides = 1
    /\ speakerNote = {}
    /\ active = {}
    /\ ACTIVITY_STEPS = RealSteps(variant)
    /\ dataCues \in [Btns -> CueAttrs]
    /\ Boot

\* documents for the metadata loader: any payload, slots filled or not
InitVideo ==
    /\ payload \in Payloads
    /\ markupFilled \in BOOLEAN
    /\ variant \in Variants
    /\ docSlides \in 0..1
    /\ speakerNote = {}
    /\ active = {}
    /\ ACTIVITY_STEPS = RealSteps(variant)
    /\ dataCues = [b \in Btns |-> <<>>]
    /\ Boot

\* documents for slide changes during a narration: two slides, every
\* narration button with cues for both cards
InitShow ==
    /\ payload = BuildPayload
    /\ markupFilled = FALSE
    /\ variant = "part_001"
    /\ docSlides = 2
    /\ speakerNote = {}
    /\ active = {}
    /\ ACTIVITY_STEPS = RealSteps(variant)
    /\ dataCues = [b \in Btns |->
                     <<"a", ":", "1", ",", "b", ":", "2">>]
    /\ Boot

----------------------------------------------------------------------------
(***************************************************************************)
(* Handlers                                                                *)
(***************************************************************************)
setupTimer ==
    /\ timerStepIndex' = 0
    /\ timerSeconds' = ACTIVITY_STEPS[1]
    /\ renderTimer
    /\ UNCHANGED <<timerInterval, timerRunning, intervals, btnText, btnClass,
                   btnDisabled, elapsed>>

setupNarration ==
    /\ cues' = IF variant = "part_001"
                 THEN [b \in Btns |-> parseCues(dataCues[b])]
                 ELSE cues
    /\ UNCHANGED narrVars

\* init(), run once when the document is loaded
init ==
    /\ phase = "loading"
    /\ lastOp' = Op("init", "", "", 0)
    /\ slides' = SlideArray(docSlides)
    /\ IF Len(slides') = 0
         THEN /\ phase' = "empty"
              /\ UNCHANGED <<cues, navVars, timerVars, narrVars, videoVars>>
         ELSE /\ phase' = "ready"
              /\ hydrateVideos
              /\ setupTimer
              /\ setupNarration
              /\ GoToSlide(slides', 0)
    /\ UNCHANGED <<cfgVars, uiVars>>

\* goToSlide(i) called with an arbitrary integer
goToSlideCall ==
    /\ phase = "ready"
    /\ \E i \in (0 - MaxOver)..(Len(slides) - 1 + MaxOver) :
          /\ GoToSlide(slides, i)
          /\ lastOp' = Op("goToSlide", "", "", i)
    /\ UNCHANGED <<cfgVars, videoVars, phase, slides, cues,
                   uiVars, timerVars, narrVars>>

\* click on #prev-btn; a disabled button dispatches no click
clickPrev ==
    /\ phase = "ready"
    /\ ~prevDisabled
    /\ prevSlide
    /\ lastOp' = Op("prevSlide", "", "", currentIndex)
    /\ UNCHANGED <<cfgVars, videoVars, phase, slides, cues,
                   uiVars, timerVars, narrVars>>

\* click on #next-btn
clickNext ==
    /\ phase = "ready"
    /\ ~nextDisabled
    /\ nextSlide
    /\ lastOp' = Op("nextSlide", "", "", currentIndex)
    /\ UNCHANGED <<cfgVars, videoVars, phase, slides, cues,
                   uiVars, timerVars, narrVars>>

Keys == {"ArrowRight", "PageDown", " ", "ArrowLeft", "PageUp", "Home", "End",
         "s", "S", "f", "F", "Enter"}
Tags == {"input", "textarea", "video", "button", "body"}

\* the keydown listener of setupKeyboard
keydown ==
    /\ phase = "ready"
    /\ \E key \in Keys, tag \in Tags :
          /\ lastOp' = Op("keydown", key, tag, currentIndex)
          /\ IF tag = "input" \/ tag = "textarea"
               THEN UNCHANGED <<navVars, uiVars>>
             ELSE IF key \in {"ArrowRight", "PageDown"}
               THEN nextSlide /\ UNCHANGED uiVars
             ELSE IF key = " "
               THEN IF tag # "video" /\ tag # "button"
                      THEN nextSlide /\ UNCHANGED uiVars
                      ELSE UNCHANGED <<navVars, uiVars>>
             ELSE IF key \in {"ArrowLeft", "PageUp"}
               THEN prevSlide /\ UNCHANGED uiVars
             ELSE IF key = "Home"
               THEN GoToSlide(slides, 0) /\ UNCHANGED uiVars
             ELSE IF key = "End"
               THEN GoToSlide(slides, Len(slides) - 1) /\ UNCHANGED uiVars
             ELSE IF key \in {"s", "S"}
               THEN toggleNotes /\ UNCHANGED navVars
             ELSE IF key \in {"f", "F"}
               THEN toggleFullscreen /\ UNCHANGED navVars
             ELSE UNCHANGED <<navVars, uiVars>>
    /\ UNCHANGED <<cfgVars, videoVars, phase, slides, cues,
                   timerVars, narrVars>>

\* click on #timer-btn; a disabled button dispatches no click
clickTimerBtn ==
    /\ phase = "ready"
    /\ ~btnDisabled
    /\ IF timerRunning THEN pauseTimer ELSE startTimer
    /\ lastOp' = Op(IF timerRunning THEN "pauseTimer" ELSE "startTimer",
                    TimerState, "", 0)
    /\ UNCHANGED <<cfgVars, videoVars, phase, slides, cues,
                   navVars, uiVars, narrVars>>

\* click on #timer-reset
clickTimerReset ==
    /\ phase = "ready"
    /\ resetTimer
    /\ lastOp' = Op("resetTimer", TimerState, "", 0)
    /\ UNCHANGED <<cfgVars, videoVars, phase, slides, cues,
                   navVars, uiVars, narrVars>>

\* a live interval fires its callback
Tick ==
    /\ \E h \in intervals :
          /\ tick
          /\ lastOp' = Op("tick", TimerState, "", h)
    /\ UNCHANGED <<cfgVars, videoVars, phase, slides, cues,
                   navVars, uiVars, narrVars>>

\* what a click on button b meets: the playing control itself ("toggle"),
\* another control that is playing ("interrupts"), or neither
ClickKind(b) ==
    IF activeNarrate.btn = 0 THEN ""
    ELSE IF audio[activeNarrate.btn].paused THEN ""
    ELSE IF activeNarrate.btn = b THEN "toggle"
    ELSE "interrupts"

\* click on a narration button
clickNarrate ==
    /\ phase = "ready"
    /\ variant = "part_001"
    /\ \E b \in Btns :
          /\ narrateClick(NarrState, b).playCount <= MaxPlays
          /\ SetNarr(narrateClick(NarrState, b))
          /\ lastOp' = Op("narrateClick", ClickKind(b),
                          IF timeouts # {} THEN "pending" ELSE "", b)
    /\ UNCHANGED <<cfgVars, videoVars, phase, slides, cues,
                   navVars, uiVars, timerVars>>

\* the pending timeout of a playback that expires first
IsNextTimeout(t) ==
    \A u \in timeouts :
        u.play = t.play =>
            \/ u.delay > t.delay
            \/ u.delay = t.delay /\ u.idx >= t.idx

\* a pending cue timeout expires
fireTimeout ==
    /\ \E t \in timeouts :
          /\ IsNextTimeout(t)
          /\ SetNarr([cueCallback(NarrState, t) EXCEPT
                          !.timeouts = @ \ {t}])
          /\ lastOp' = Op("cue", "", "", t.play)
    /\ UNCHANGED <<cfgVars, videoVars, phase, slides, cues,
                   navVars, uiVars, timerVars>>

\* a playing audio moves on without reaching its end
audioAdvance ==
    /\ \E b \in Btns :
          /\ ~audio[b].paused
          /\ audio[b].currentTime + 1 < AudioEnd
          /\ audio' = [audio EXCEPT ![b].currentTime = @ + 1]
          /\ lastOp' = Op("timeupdate", "", "", b)
    /\ UNCHANGED <<cfgVars, videoVars, phase, slides, cues,
                   navVars, uiVars, timerVars,
                   activeNarrate, narrBtn, timeouts, speaking, playCount,
                   stoppedPlays, highlightBy>>

\* a playing audio reaches its end: the element pauses itself at the end
\* position and the "ended" listener runs
audioEnded ==
    /\ \E b \in Btns :
          /\ ~audio[b].paused
          /\ audio[b].currentTime + 1 >= AudioEnd
          /\ SetNarr(onEnded([NarrState EXCEPT
                 !.audio[b] = [paused |-> TRUE, currentTime |-> AudioEnd]],
                 b))
          /\ lastOp' = Op("ended", "",
                          IF timeouts # {} THEN "pending" ELSE "", b)
    /\ UNCHANGED <<cfgVars, videoVars, phase, slides, cues,
                   navVars, uiVars, timerVars>>

\* the browser fires an error event on a video player that is loading
videoError ==
    /\ phase = "ready"
    /\ \E k \in KeySet :
          /\ loading[k]
          /\ errorEvents[k] < MaxErrors
          /\ errorEvents' = [errorEvents EXCEPT ![k] = @ + 1]
          /\ onError(k)
          /\ lastOp' = Op("videoError", k,
                          IF fallbacks'[k] > fallbacks[k] THEN "fallback" ELSE "",
                          errorEvents[k])
    /\ UNCHANGED <<durText, onerror>>
    /\ UNCHANGED <<cfgVars, phase, slides, cues, navVars, uiVars, timerVars,
                   narrVars>>

NextNav   == init \/ goToSlideCall \/ clickPrev \/ clickNext \/ keydown
NextTimer == init \/ clickTimerBtn \/ clickTimerReset \/ Tick
NextNarr  == init \/ clickNarrate \/ fireTimeout \/ audioAdvance \/ audioEnded
NextVideo == init \/ videoError

SpecNav   == InitNav /\ [][NextNav]_vars
SpecTimer == InitTimer /\ [][NextTimer]_vars
SpecNarr  == InitNarr /\ [][NextNarr]_vars
SpecVideo == InitVideo /\ [][NextVideo]_vars
NextShow  == init \/ goToSlideCall \/ clickPrev \/ clickNext \/ clickNarrate
               \/ fireTimeout \/ audioAdvance \/ audioEnded
SpecShow  == InitShow /\ [][NextShow]_vars

\* setInterval fires the callback of a live interval every second
SpecTimerFair == InitTimer /\ [][NextTimer]_vars /\ WF_vars(Tick)

----------------------------------------------------------------------------
(***************************************************************************)
(* Properties of the navigator                                             *)
(***************************************************************************)
\* the handler that ran last called nextSlide() / prevSlide()
CalledNext(o) ==
    \/ o.op = "nextSlide"
    \/ /\ o.op = "keydown"
       /\ o.tag \notin {"input", "textarea"}
       /\ \/ o.key \in {"ArrowRight", "PageDown"}
          \/ o.key = " " /\ o.tag \notin {"video", "button"}
CalledPrev(o) ==
    \/ o.op = "prevSlide"
    \/ /\ o.op = "keydown"
       /\ o.tag \notin {"input", "textarea"}
       /\ o.key \in {"ArrowLeft", "PageUp"}

\* C1: once init() has set the deck up, currentIndex is an index of slides
\* after every goToSlide(i), nextSlide(), prevSlide() and key press, and
\* nextSlide() at the last index and prevSlide() at index 0 leave
\* currentIndex where it is.
C1_IndexClamped ==
    phase = "ready" =>
      /\ currentIndex \in 0..(Len(slides) - 1)
      /\ (CalledNext(lastOp) /\ lastOp.n = Len(slides) - 1)
            => currentIndex = Len(slides) - 1
      /\ (CalledPrev(lastOp) /\ lastOp.n = 0) => currentIndex = 0

\* nextSlide() was called by a key press at the last of several slides
C1_Witness ==
    /\ phase = "ready"
    /\ Len(slides) >= 3
    /\ lastOp.op = "keydown"
    /\ CalledNext(lastOp)
    /\ lastOp.n = Len(slides) - 1
    /\ currentIndex = Len(slides) - 1

\* the part of the page goToSlide writes
NavView == <<currentIndex, active, progressWidth, counterText, notesContent,
             musicVisible>>

\* C2: goToSlide(i) with i outside [0, slides.length - 1] changes neither
\* currentIndex nor the active slides, the progress width, the counter, the
\* notes text or the visibility of the reveal widget.
C2_OutOfRangeNoOp ==
    [][(lastOp'.op = "goToSlide"
          /\ (lastOp'.n < 0 \/ lastOp'.n >= Len(slides)))
        => UNCHANGED NavView]_vars

\* goToSlide(slides.length) was called while another slide than the first
\* was shown
C2_Witness ==
    /\ phase = "ready"
    /\ lastOp.op = "goToSlide"
    /\ lastOp.n = Len(slides)
    /\ currentIndex > 0
    /\ notesContent # <<>>

----------------------------------------------------------------------------
(***************************************************************************)
(* Properties of the narration cue player                                  *)
(***************************************************************************)
Playing == {b \in Btns : ~audio[b].paused}
Stopped == [paused |-> TRUE, currentTime |-> 0]

\* C3: at most one audio is un-paused in every state, and a click on
\* control b while another control a is playing leaves a stopped (paused at
\* position 0, button "Listen", no highlight, none of its cue timeouts
\* pending) and b the active, playing narration.
C3_OneNarration ==
    /\ [](Cardinality(Playing) <= 1)
    /\ [][\A a, b \in Btns :
            (/\ a # b
             /\ activeNarrate.btn = a
             /\ ~audio[a].paused
             /\ lastOp'.op = "narrateClick"
             /\ lastOp'.n = b)
            => /\ audio'[a] = Stopped
               /\ narrBtn'[a] = ListenBtn
               /\ speaking' = {}
               /\ timeouts' \cap Range(activeNarrate.timers) = {}
               /\ \A t \in timeouts' : t.play = playCount'
               /\ activeNarrate'.btn = b
               /\ ~audio'[b].paused
               /\ narrBtn'[b] = StopBtn]_vars

\* control b was clicked while the other control was playing with cue
\* timeouts pending, and b has cues of its own
C3_Witness ==
    /\ lastOp.op = "narrateClick"
    /\ lastOp.key = "interrupts"
    /\ lastOp.tag = "pending"
    /\ activeNarrate.btn = lastOp.n
    /\ timeouts # {}

\* C4: a click on the control that is the active, playing one stops it:
\* audio paused at position 0, button "Listen", no cue timeout pending, no
\* element highlighted, activeNarrate null.
C4_ToggleStops ==
    [][\A b \in Btns :
         (/\ activeNarrate.btn = b
          /\ ~audio[b].paused
          /\ lastOp'.op = "narrateClick"
          /\ lastOp'.n = b)
         => /\ audio'[b] = Stopped
            /\ narrBtn'[b] = ListenBtn
            /\ timeouts' = {}
            /\ speaking' = {}
            /\ activeNarrate' = NoNarrate]_vars

\* the playing control was clicked while one of its cues was highlighted
\* and another was still to come
C4_Witness ==
    /\ lastOp.op = "narrateClick"
    /\ lastOp.key = "toggle"
    /\ lastOp.tag = "pending"
    /\ activeNarrate = NoNarrate
    /\ playCount \in stoppedPlays

\* C5: no cue timeout of a playback that stopNarrate() has stopped is
\* pending, none fires, and no element is highlighted by one.
C5_StopCancelsCues ==
    /\ \A t \in timeouts : t.play \notin stoppedPlays
    /\ lastOp.op = "cue" => lastOp.n \notin stoppedPlays
    /\ highlightBy \notin stoppedPlays

\* a playback with pending cue timeouts was stopped, by its own control or
\* by the start of another, after an earlier playback had been stopped
C5_Witness ==
    /\ lastOp.op = "narrateClick"
    /\ lastOp.key \in {"toggle", "interrupts"}
    /\ lastOp.tag = "pending"
    /\ stoppedPlays # {}
    /\ Cardinality(stoppedPlays) >= 2

\* C6: after the audio of the active narration reached its end, the button
\* shows "Listen", nothing is highlighted, no cue timeout is pending and
\* activeNarrate is null.
C6_EndedIsStop ==
    lastOp.op = "ended" =>
       /\ narrBtn[lastOp.n] = ListenBtn
       /\ speaking = {}
       /\ timeouts = {}
       /\ activeNarrate = NoNarrate

----------------------------------------------------------------------------
(***************************************************************************)
(* Properties of the activity timer                                        *)
(***************************************************************************)
\* d_1 + ... + d_k
RECURSIVE SumTo(_, _)
SumTo(steps, k) == IF k = 0 THEN 0 ELSE SumTo(steps, k - 1) + steps[k]

StepCount == Len(ACTIVITY_STEPS)

\* C7: in a run started from Idle and neither paused nor reset, after
\* d_1 + ... + d_k ticks (k < n) the timer is Running at step k + 1 with
\* that step's full duration left, and after d_1 + ... + d_n ticks it is
\* Complete with 0 seconds left, no tick scheduled and the start control
\* disabled and labelled "Done".
C7_StepProgression ==
    elapsed # NoRun =>
      /\ \A k \in 0..(StepCount - 1) :
            elapsed = SumTo(ACTIVITY_STEPS, k)
              => /\ timerRunning
                 /\ timerStepIndex = k
                 /\ timerSeconds = ACTIVITY_STEPS[k + 1]
      /\ elapsed = SumTo(ACTIVITY_STEPS, StepCount)
            => /\ TimerState = "Complete"
               /\ timerStepIndex = StepCount
               /\ timerSeconds = 0
               /\ intervals = {}
               /\ btnDisabled
               /\ btnText = "Done"

\* the steps [10s, 5s] ran to completion in 15 ticks
C7_Witness ==
    /\ ACTIVITY_STEPS = ExampleSteps
    /\ elapsed = 15
    /\ lastOp.op = "tick"
    /\ timerStepIndex = 2

\* C8: resetTimer() from any state leaves the timer Idle (step 0, the first
\* step's full duration, start control enabled and labelled "Start", not
\* running, no tick scheduled), and while the control is labelled "Start"
\* nothing but a click on it changes timerSeconds.
C8_ResetToIdle ==
    /\ [](lastOp.op = "resetTimer"
            => /\ timerStepIndex = 0
               /\ timerSeconds = ACTIVITY_STEPS[1]
               /\ ~btnDisabled
               /\ btnText = "Start"
               /\ ~timerRunning
               /\ intervals = {})
    /\ [][(phase = "ready" /\ btnText = "Start"
             /\ lastOp'.op # "startTimer")
          => /\ timerSeconds' = timerSeconds
             /\ timerStepIndex' = timerStepIndex
             /\ btnText' = "Start"]_vars

\* the timer was reset while it was running
C8_Witness ==
    /\ lastOp.op = "resetTimer"
    /\ lastOp.key = "Running"
    /\ timerInterval # NoHandle
    /\ intervals = {}
    /\ timerSeconds = ACTIVITY_STEPS[1]
    /\ StepCount > 1

\* C9: exactly one interval is live while the timer is Running, and it is
\* the one timerInterval names; none is live when the timer is Idle, Paused
\* or Complete; every tick fires in the Running state.
C9_OneTickSchedule ==
    /\ timerRunning => intervals = {timerInterval}
    /\ ~timerRunning => intervals = {}
    /\ Cardinality(intervals) <= 1
    /\ lastOp.op = "tick" => lastOp.key = "Running"

\* the start control was clicked in the Paused state: the timer runs again
\* on a single interval
C9_Witness ==
    /\ lastOp.op = "startTimer"
    /\ lastOp.key = "Paused"
    /\ timerRunning
    /\ Cardinality(intervals) = 1

\* C10: timerSeconds is in [0, duration of the current step] while
\* timerStepIndex is below the step count, and 0 when timerStepIndex equals
\* the step count.
C10_RemainingInRange ==
    IF timerStepIndex < StepCount
      THEN timerSeconds \in 0..ACTIVITY_STEPS[timerStepIndex + 1]
      ELSE timerStepIndex = StepCount /\ timerSeconds = 0

\* a tick moved the timer into a later step that is shorter than the one
\* before it
C10_Witness ==
    /\ lastOp.op = "tick"
    /\ timerStepIndex \in 1..(StepCount - 1)
    /\ ACTIVITY_STEPS[timerStepIndex + 1] < ACTIVITY_STEPS[timerStepIndex]
    /\ timerSeconds = ACTIVITY_STEPS[timerStepIndex + 1]

\* C11 as stated: across every transition of the timer, resetTimer
\* included, timerStepIndex never decreases and never exceeds the step
\* count.
C11_NeverDecreases ==
    [][/\ timerStepIndex' >= timerStepIndex
       /\ timerStepIndex' <= StepCount]_vars

\* C11: timerStepIndex never exceeds the step count and never decreases
\* across a start, a tick or a pause; resetTimer() alone lowers it, to 0.
C11_MonotoneUntilReset ==
    [][/\ timerStepIndex' <= StepCount
       /\ lastOp'.op # "resetTimer" => timerStepIndex' >= timerStepIndex
       /\ lastOp'.op = "resetTimer" => timerStepIndex' = 0]_vars

\* the timer was reset after its last step had expired
C11_Witness ==
    /\ lastOp.op = "resetTimer"
    /\ lastOp.key = "Complete"
    /\ timerStepIndex = 0
    /\ StepCount > 1

\* the class renderTimer is to give #timer-display for sec seconds left
UrgencyBand(sec) ==
    IF 0 < sec /\ sec <= 10 THEN "danger"
    ELSE IF 10 < sec /\ sec <= 30 THEN "warning"
    ELSE ""

\* C18: after every render the display is "danger" exactly when
\* 0 < timerSeconds <= 10, "warning" exactly when 10 < timerSeconds <= 30,
\* and neutral otherwise, timerSeconds = 0 in the Complete state included.
C18_UrgencyBands ==
    phase = "ready" => display.cls = UrgencyBand(timerSeconds)

\* C19: pauseTimer() takes the timer from Running ("Pause") to Paused
\* ("Resume") and leaves timerStepIndex and timerSeconds alone; they stay
\* the same while the timer is Paused, and a click on the control then
\* resumes Running, labelled "Pause", from the same values.
C19_PauseKeepsCountdown ==
    /\ [][lastOp'.op = "pauseTimer"
            => /\ timerRunning /\ btnText = "Pause"
               /\ ~timerRunning' /\ btnText' = "Resume"
               /\ TimerState' = "Paused"
               /\ timerStepIndex' = timerStepIndex
               /\ timerSeconds' = timerSeconds]_vars
    /\ [][(TimerState = "Paused" /\ lastOp'.op # "resetTimer")
            => /\ timerStepIndex' = timerStepIndex
               /\ timerSeconds' = timerSeconds
               /\ \/ TimerState' = "Paused" /\ btnText' = "Resume"
                  \/ /\ lastOp'.op = "startTimer"
                     /\ timerRunning'
                     /\ btnText' = "Pause"]_vars

\* the timer was resumed in the middle of its second step
C19_Witness ==
    /\ lastOp.op = "startTimer"
    /\ lastOp.key = "Paused"
    /\ timerRunning
    /\ btnText = "Pause"
    /\ timerStepIndex = 1
    /\ timerSeconds \in 1..(ACTIVITY_STEPS[2] - 1)

----------------------------------------------------------------------------
(***************************************************************************)
(* Properties of the reveal widget and the navigation controls             *)
(***************************************************************************)
\* the visibility the reveal widget is to have at index idx
ShouldShow(idx) == idx >= Len(slides) - 3

\* C12: once init() has set the deck up, the reveal widget is visible if
\* and only if currentIndex >= slides.length - 3.
C12_RevealLastThree ==
    phase = "ready" => (musicVisible <=> ShouldShow(currentIndex))

\* of five slides the third was reached from the second, and the widget
\* came up
C12_Witness ==
    /\ phase = "ready"
    /\ Len(slides) = 5
    /\ CalledNext(lastOp)
    /\ lastOp.n = 1
    /\ currentIndex = 2
    /\ musicVisible

\* C13: a slide change writes the widget's visible state exactly once when
\* the required visibility changes with it and not at all when it stays
\* the same, in both revisions.
C13_NoRedundantWrites ==
    [][(phase = "ready" /\ currentIndex' # currentIndex)
        => musicWrites' = IF ShouldShow(currentIndex') # ShouldShow(currentIndex)
                            THEN 1 ELSE 0]_vars

\* C20: once init() has set the deck up, the previous control is disabled
\* iff currentIndex = 0, the next control iff currentIndex is the last
\* index, and the counter reads "currentIndex + 1 / slides.length".
C20_ControlsAndCounter ==
    phase = "ready" =>
      /\ prevDisabled <=> currentIndex = 0
      /\ nextDisabled <=> currentIndex = Len(slides) - 1
      /\ counterText = <<currentIndex + 1, Len(slides)>>

\* the End key took a deck of several slides from its first to its last
\* slide
C20_Witness ==
    /\ phase = "ready"
    /\ Len(slides) >= 3
    /\ lastOp.op = "keydown" /\ lastOp.key = "End" /\ lastOp.tag = "body"
    /\ lastOp.n = 0
    /\ currentIndex = Len(slides) - 1
    /\ nextDisabled /\ ~prevDisabled

----------------------------------------------------------------------------
(***************************************************************************)
(* Properties of the cue parser                                            *)
(***************************************************************************)
\* a pair "id:offset" with a non-empty id and an offset made of digits
WellFormedPair(pair) ==
    LET parts == Split(pair, ":") IN
    /\ Len(parts) = 2
    /\ parts[1] # <<>>
    /\ parts[2] # <<>>
    /\ \A i \in 1..Len(parts[2]) : parts[2][i] \in Digits

\* a data-cues attribute that is a comma-separated list of such pairs
WellFormed(attr) ==
    \A i \in 1..Len(Split(attr, ",")) : WellFormedPair(Split(attr, ",")[i])

Malformed(attr) == attr # <<>> /\ ~WellFormed(attr)

\* C14: a malformed data-cues attribute gives an empty cue list, as a
\* missing attribute does, so a playback of that control has no cue timeout
\* and highlights nothing.
C14_MalformedCuesEmpty ==
    phase = "ready" =>
      \A b \in Btns :
         Malformed(dataCues[b])
           => /\ cues[b] = <<>>
              /\ activeNarrate.btn = b => activeNarrate.timers = <<>>

----------------------------------------------------------------------------
(***************************************************************************)
(* Metadata loader: fallback, missing records, unparseable payload         *)
(***************************************************************************)

\* C15: playback failure triggers one fallback attempt: however many error
\* events the player of a video fires, the handler assigns the remote
\* source at most once.
C15_OneFallback == \A k \in KeySet : fallbacks[k] <= 1

\* C16 as stated: after init with a payload that has a videos map, every key
\* whose record lacks the filename shows "Not detected" and every key whose
\* record lacks the duration shows "Play to see", whatever else the record
\* and the other records hold.
C16_PlaceholderPerField ==
    (phase = "ready" /\ payload.kind = "videos") =>
        \A k \in KeySet :
            /\ payload.videos[k].filename = "" => fileText[k] = "Not detected"
            /\ payload.videos[k].duration = "" => durText[k] = "Play to see"

\* C16, amended: the slots and the player source of a key are a function of
\* that key's record alone (and of the fallbacks of its own player): a
\* missing duration shows "Play to see"; a missing filename shows "Not
\* detected" and leaves the player without source, unless the record names
\* a remote URL, which is then the source, shown as "Streaming from GitHub".
C16_PlaceholderUnlessRemote ==
    (phase = "ready" /\ payload.kind = "videos") =>
        \A k \in KeySet :
            LET rec == payload.videos[k]
            IN  /\ durText[k] =
                     (IF rec.duration = "" THEN "Play to see" ELSE rec.duration)
                /\ (rec.filename = "" /\ rec.remote = "") =>
                     (fileText[k] = "Not detected" /\ playerSrc[k] = "")
                /\ (rec.filename = "" /\ rec.remote # "") =>
                     (fileText[k] = "Streaming from GitHub"
                        /\ playerSrc[k] = rec.remote)
                /\ (rec.filename # "" /\ fallbacks[k] = 0) =>
                     (fileText[k] = rec.filename
                        /\ playerSrc[k] = rec.filename)
                /\ (rec.filename # "" /\ fallbacks[k] > 0) =>
                     (fileText[k] = "Streaming from GitHub"
                        /\ playerSrc[k] = rec.remote)

\* init ran on a payload without the v2 record, v1 and v3 being complete
C16_Witness ==
    /\ phase = "ready" /\ lastOp.op = "init"
    /\ payload.kind = "videos"
    /\ ~payload.videos["v2"].present
    /\ \A k \in {"v1", "v3"} :
          /\ payload.videos[k].filename # ""
          /\ payload.videos[k].duration # ""
          /\ fileText[k] = payload.videos[k].filename
          /\ durText[k] = payload.videos[k].duration
    /\ fileText["v2"] = "Not detected"
    /\ durText["v2"] = "Play to see"

\* C17: after init with a payload that fails to parse, slide 0 is shown, the
\* timer is set up, and every key's slots carry the placeholders an empty
\* videos map gives, its player having no source.
C17_ParseFailureAsEmptyMap ==
    (phase = "ready" /\ payload.kind = "unparseable") =>
        /\ currentIndex = 0 /\ active = {0}
        /\ timerSeconds = ACTIVITY_STEPS[1]
        /\ \A k \in KeySet :
              /\ fileText[k] = "Not detected"
              /\ durText[k] = "Play to see"
              /\ playerSrc[k] = ""

----------------------------------------------------------------------------
(***************************************************************************)
(* Keyboard, liveness of the timer, the active mark, slide change and      *)
(* narration                                                               *)
(***************************************************************************)

\* C22: after a key press, with n the index before it: right-arrow,
\* page-down and space leave the index at n when the focus is on an input,
\* textarea, video or button and otherwise advance it to min(n + 1, last);
\* left-arrow and page-up retreat to max(n - 1, 0); Home gives 0 and End
\* gives the last index (keys typed into an input or textarea are read as
\* exempt from the last three).
C22_KeyboardContract ==
    (lastOp.op = "keydown") =>
        LET n    == lastOp.n
            last == Len(slides) - 1
        IN  /\ lastOp.key \in {"ArrowRight", "PageDown", " "} =>
                 currentIndex =
                    (IF lastOp.tag \in {"input", "textarea", "video", "button"}
                       THEN n ELSE Min(n + 1, last))
            /\ lastOp.tag \notin {"input", "textarea"} =>
                 /\ lastOp.key \in {"ArrowLeft", "PageUp"} =>
                      currentIndex = Max(n - 1, 0)
                 /\ lastOp.key = "Home" => currentIndex = 0
                 /\ lastOp.key = "End" => currentIndex = last

\* C24: in a document whose markup marks no slide active, once init ran
\* (on a deck that has slides) and after any navigation, exactly one slide
\* is active and it is the slide at currentIndex.
C24_OneActiveSlide ==
    (markupActive = {} /\ phase = "ready") =>
        active = {At(slides, currentIndex)}

\* nextSlide() at the last index of a deck that was navigated before, the
\* active mark staying on the last slide
C24_Witness ==
    /\ markupActive = {} /\ phase = "ready"
    /\ Len(slides) > 1
    /\ CalledNext(lastOp)
    /\ lastOp.n = Len(slides) - 1
    /\ currentIndex = Len(slides) - 1
    /\ active = {At(slides, Len(slides) - 1)}

\* C23: under fair firing of ticks a Running timer eventually is Complete
\* unless it is paused or reset on the way; in Complete no interval is live
\* and the start control is disabled, and every step out of Complete that
\* is not a reset leaves stepIndex, the remaining seconds and the state as
\* they are.
C23_ReachesCompleteAndStays ==
    /\ [](TimerState = "Running" =>
            <>(TimerState = "Complete"
                 \/ lastOp.op \in {"pauseTimer", "resetTimer"}))
    /\ [](TimerState = "Complete" => (intervals = {} /\ btnDisabled))
    /\ [][(TimerState = "Complete" /\ lastOp'.op # "resetTimer") =>
             /\ timerStepIndex' = timerStepIndex
             /\ timerSeconds' = timerSeconds
             /\ TimerState' = "Complete"]_vars

\* the real step list, counted down to Complete without pause or reset
C23_Witness ==
    /\ ACTIVITY_STEPS = RealSteps(variant)
    /\ TimerState = "Complete"
    /\ lastOp.op = "tick"
    /\ elapsed = SumTo(ACTIVITY_STEPS, Len(ACTIVITY_STEPS))

\* C21: whenever a step changes the current slide while a narration is
\* playing, after the step no audio is playing, no cue timeout is pending,
\* no element is highlighted and activeNarrate is null.
C21_SlideChangeStopsNarration ==
    [][(Playing # {} /\ currentIndex' # currentIndex) =>
          /\ Playing' = {}
          /\ timeouts' = {}
          /\ speaking' = {}
          /\ activeNarrate' = NoNarrate]_vars

====
